---- MODULE Spec2Model ----
(***************************************************************************)
(* express-crud-api: the User CRUD handlers (UserController), the          *)
(* repository they call (UserRepository) and the "user" table behind it    *)
(* (the User entity: a generated primary key, four NOT NULL columns, a     *)
(* create-date and an update-date column).                                 *)
(*                                                                         *)
(* A request is answered in one step (the handler with every repository    *)
(* call it makes); the step leaves the request and its response in         *)
(* `request` / `response`, and Finish (the response's "finish" event)      *)
(* returns the connection to idle.                                         *)
(***************************************************************************)
EXTENDS Integers, Sequences, FiniteSets, TLC

(***************************************************************************)
(* Bounds of the model                                                     *)
(***************************************************************************)
\* the database clock stops the model after this many successful writes
MaxClock == 4
\* the same, for the workloads with many inputs
MaxClockWide == 3
\* the id sequence hands out at most this many values
MaxSeq == 3

(***************************************************************************)
(* JSON values (request bodies, response payloads)                         *)
(***************************************************************************)
undefined == [type |-> "undefined", str |-> "", num |-> 0]
JStr(s) == [type |-> "string", str |-> s, num |-> 0]
JNum(n) == [type |-> "number", str |-> "", num |-> n]
\* a timestamp as it travels in JSON (an ISO date string); num is the instant
JDate(t) == [type |-> "date", str |-> "", num |-> t]

DigitChars == <<"0", "1", "2", "3", "4", "5", "6", "7", "8", "9">>

IsDigit(c) == \E d \in 1..10 : DigitChars[d] = c

DigitValue(c) == (CHOOSE d \in 1..10 : DigitChars[d] = c) - 1

\* Number.prototype.toString for a non-negative integer
RECURSIVE NumberToString(_)
NumberToString(n) ==
  IF n < 10 THEN DigitChars[n + 1]
  ELSE NumberToString(n \div 10) \o DigitChars[(n % 10) + 1]

(***************************************************************************)
(* parseInt(string): optional sign, then the longest prefix of decimal     *)
(* digits; NaN when there is no digit.  A string is a sequence of          *)
(* one-character strings.                                                  *)
(***************************************************************************)
NaN == [nan |-> TRUE, val |-> 0]

RECURSIVE ParseDigits(_, _, _)
ParseDigits(s, i, acc) ==
  IF i > Len(s) \/ ~IsDigit(s[i]) THEN acc
  ELSE ParseDigits(s, i + 1, acc * 10 + DigitValue(s[i]))

parseInt(s) ==
  LET neg   == Len(s) > 0 /\ s[1] = "-"
      first == IF Len(s) > 0 /\ s[1] \in {"-", "+"} THEN 2 ELSE 1
      abs   == ParseDigits(s, first, 0)
  IN IF first > Len(s) \/ ~IsDigit(s[first]) THEN NaN
     ELSE [nan |-> FALSE, val |-> IF neg THEN 0 - abs ELSE abs]

\* parseInt(x) || dflt : NaN and 0 are falsy
OrDefault(n, dflt) == IF n.nan \/ n.val = 0 THEN dflt ELSE n.val

(***************************************************************************)
(* The User entity                                                         *)
(***************************************************************************)
\* @Column() properties: NOT NULL, no default
NotNullColumns == {"firstName", "lastName", "email", "age"}
\* character columns (string properties)
VarcharColumns == {"firstName", "lastName", "email"}
\* every column an UPDATE ... SET may name
Columns == {"id", "firstName", "lastName", "email", "age", "createdAt", "updatedAt"}

\* a User object none of whose properties is set
NoUser ==
  [id |-> undefined, firstName |-> undefined, lastName |-> undefined,
   email |-> undefined, age |-> undefined, createdAt |-> undefined,
   updatedAt |-> undefined]

\* the class-validator decorators of the entity, in declaration order
UserValidators ==
  << [property |-> "firstName", constraint |-> "isNotEmpty",
      message |-> "First name is required"],
     [property |-> "lastName", constraint |-> "isNotEmpty",
      message |-> "Last name is required"],
     [property |-> "email", constraint |-> "isNotEmpty",
      message |-> "Email is required"],
     [property |-> "age", constraint |-> "isNumber",
      message |-> "Age must be a number"] >>

\* IsNotEmpty: value !== '' && value !== null && value !== undefined
IsNotEmpty(v) == v.type # "undefined" /\ ~(v.type = "string" /\ v.str = "")

\* IsNumber({}): typeof value === 'number' (JSON carries no NaN or Infinity)
IsNumber(v) == v.type = "number"

Satisfies(constraint, v) ==
  IF constraint = "isNotEmpty" THEN IsNotEmpty(v) ELSE IsNumber(v)

\* validate that stops at the first property that fails
validate_stopAtFirstError(userData) ==
  LET failed == SelectSeq(UserValidators,
                          LAMBDA d : /\ userData[d.property].type # "undefined"
                                     /\ ~Satisfies(d.constraint, userData[d.property]))
  IN IF failed = <<>> THEN failed ELSE <<Head(failed)>>

\* validate(userData, { skipMissingProperties: true }): a property that is
\* undefined is not validated at all
validate(userData) ==
  SelectSeq(UserValidators,
            LAMBDA d : /\ userData[d.property].type # "undefined"
                       /\ ~Satisfies(d.constraint, userData[d.property]))

\* errors.map(error => ({ field, constraints }))
ValidationErrors(errors) ==
  [i \in 1..Len(errors) |->
     [field |-> errors[i].property,
      constraints |-> [name |-> errors[i].constraint,
                       message |-> errors[i].message]]]

\* plainToClass(User, plain): every property of the plain object is copied
plainToClass(plain) == plain

\* a merge that keeps the stored record and drops the body
Spread_ignoresBody(existingUser, body) == existingUser

\* { ...existingUser, ...request.body }
Spread(existingUser, body) ==
  LET V(c) == IF body[c].type # "undefined" THEN body[c] ELSE existingUser[c]
  IN [id |-> V("id"), firstName |-> V("firstName"), lastName |-> V("lastName"),
      email |-> V("email"), age |-> V("age"), createdAt |-> V("createdAt"),
      updatedAt |-> V("updatedAt")]

(***************************************************************************)
(* The "user" table.  A row holds column values and two history fields:   *)
(* genId (the value the id sequence generated for the row at its INSERT, 0 *)
(* when the INSERT named the id itself) and insertedAt (the createdAt the  *)
(* INSERT set).                                                            *)
(***************************************************************************)
VARIABLES table, sequence, now

\* what the driver writes into a column for a JavaScript value
ColumnValue(c, v) ==
  IF c \in VarcharColumns
    THEN (IF v.type = "number" THEN NumberToString(v.num) ELSE v.str)
    ELSE v.num

\* the entity a SELECT loads from a row
RowUser(r) ==
  [id |-> JNum(r.id), firstName |-> JStr(r.firstName),
   lastName |-> JStr(r.lastName), email |-> JStr(r.email),
   age |-> JNum(r.age), createdAt |-> JDate(r.createdAt),
   updatedAt |-> JDate(r.updatedAt)]

RowsWithId(t, id) == {r \in t : r.id = id}

\* the columns a partial entity defines
Defined(userData) == {c \in Columns : userData[c].type # "undefined"}

\* UPDATE "user" SET <cols of userData>, "updatedAt" = CURRENT_TIMESTAMP:
\* the update date is set by the query builder only when SET does not name it
UpdatedRow(r, userData, cols) ==
  LET V(c) == IF c \in cols THEN ColumnValue(c, userData[c])
              ELSE IF c = "updatedAt" THEN now
              ELSE r[c]
  IN [id |-> V("id"), firstName |-> V("firstName"), lastName |-> V("lastName"),
      email |-> V("email"), age |-> V("age"), createdAt |-> V("createdAt"),
      updatedAt |-> V("updatedAt"), genId |-> r.genId,
      insertedAt |-> r.insertedAt]

(***************************************************************************)
(* UserRepository.  Each operation yields the table, sequence and clock it *)
(* leaves, whether it threw (a QueryFailedError of the database), and its  *)
(* return value.                                                           *)
(***************************************************************************)
\* every order the rows can come back in under ORDER BY "createdAt" DESC
\* (rows of equal createdAt in any order)
OrderedByCreatedAtDesc(t) ==
  {o \in [1..Cardinality(t) -> t] :
     /\ \A i, j \in DOMAIN o : i # j => o[i] # o[j]
     /\ \A i, j \in DOMAIN o : i < j => o[i].createdAt >= o[j].createdAt}

Min(a, b) == IF a < b THEN a ELSE b

\* Math.floor in place of Math.ceil
Ceil_floor(total, limit) == total \div limit

\* Math.ceil(total / limit), limit > 0
Ceil(total, limit) == (total + limit - 1) \div limit

\* findAndCount({ skip, take, order }) over the rows in order o
UserRepository_findAll(page, limit, o) ==
  LET skip  == (page - 1) * limit
      total == Len(o)
      rows  == SubSeq(o, skip + 1, Min(skip + limit, total))
  IN [data |-> [i \in 1..Len(rows) |-> RowUser(rows[i])],
      total |-> total, page |-> page, totalPages |-> Ceil(total, limit)]

\* findOne that answers an empty entity, never null
UserRepository_findOne_neverNull(t, id) ==
  LET found == RowsWithId(t, id)
  IN [null |-> FALSE,
      user |-> IF found = {} THEN NoUser ELSE RowUser(CHOOSE r \in found : TRUE)]

\* findOne({ where: { id } }): the entity, or null (threw is never set)
UserRepository_findOne(t, id) ==
  LET found == RowsWithId(t, id)
  IN [null |-> found = {},
      user |-> IF found = {} THEN NoUser ELSE RowUser(CHOOSE r \in found : TRUE)]

\* save(user) of an entity whose id names no row: INSERT.  An undefined id is
\* DEFAULT (nextval of the sequence, consumed even when the INSERT fails), an
\* undefined column is DEFAULT too (NULL), the dates default to now.
SaveInsert(user) ==
  LET generated == user.id.type = "undefined"
      id        == IF generated THEN sequence ELSE user.id.num
      seq       == IF generated THEN sequence + 1 ELSE sequence
      T(c)      == IF user[c].type = "undefined" THEN now ELSE user[c].num
      notNull   == \E c \in NotNullColumns : user[c].type = "undefined"
      duplicate == RowsWithId(table, id) # {}
      row       == [id |-> id,
                    firstName |-> ColumnValue("firstName", user.firstName),
                    lastName |-> ColumnValue("lastName", user.lastName),
                    email |-> ColumnValue("email", user.email),
                    age |-> ColumnValue("age", user.age),
                    createdAt |-> T("createdAt"), updatedAt |-> T("updatedAt"),
                    genId |-> IF generated THEN id ELSE 0,
                    insertedAt |-> T("createdAt")]
  IN IF notNull \/ duplicate
       THEN [threw |-> TRUE, table |-> table, sequence |-> seq, now |-> now,
             user |-> NoUser]
       ELSE [threw |-> FALSE, table |-> table \cup {row}, sequence |-> seq,
             now |-> now + 1,
             user |-> [user EXCEPT !.id = JNum(id),
                                   !.createdAt = JDate(row.createdAt),
                                   !.updatedAt = JDate(row.updatedAt)]]

\* save(user) of an entity whose id names the row r: UPDATE of the columns
\* whose value in the entity is defined and differs from the row's
SaveUpdate(user, r) ==
  LET changed == {c \in Defined(user) : ColumnValue(c, user[c]) # r[c]}
      row     == UpdatedRow(r, user, changed)
  IN IF changed = {}
       THEN [threw |-> FALSE, table |-> table, sequence |-> sequence,
             now |-> now, user |-> user]
       ELSE [threw |-> FALSE, table |-> (table \ {r}) \cup {row},
             sequence |-> sequence, now |-> now + 1,
             user |-> [user EXCEPT !.updatedAt = JDate(row.updatedAt)]]

\* create(userData): repository.create copies the entity's columns,
\* repository.save loads the row of the entity's id, if it has one, and
\* updates it, and inserts otherwise
UserRepository_create(userData) ==
  LET existing == IF userData.id.type = "undefined" THEN {}
                  ELSE RowsWithId(table, userData.id.num)
  IN IF existing # {}
       THEN SaveUpdate(userData, CHOOSE r \in existing : TRUE)
       ELSE SaveInsert(userData)

\* update(id, userData): UPDATE ... WHERE id = id with the columns userData
\* defines (the id among them), null when no row was affected, else
\* findOne(id) after the write
UserRepository_update(id, userData) ==
  LET target    == RowsWithId(table, id)
      cols      == Defined(userData)
      rows      == {UpdatedRow(r, userData, cols) : r \in target}
      duplicate == \E r \in rows : r.id # id /\ RowsWithId(table, r.id) # {}
      written   == (table \ target) \cup rows
  IN IF duplicate
       THEN [threw |-> TRUE, table |-> table, now |-> now, calls |-> <<"update">>,
             null |-> TRUE, user |-> NoUser]
     ELSE IF target = {}
       THEN [threw |-> FALSE, table |-> table, now |-> now, calls |-> <<"update">>,
             null |-> TRUE, user |-> NoUser]
     ELSE [threw |-> FALSE, table |-> written, now |-> now + 1,
           calls |-> <<"update", "findOne">>,
           null |-> UserRepository_findOne(written, id).null,
           user |-> UserRepository_findOne(written, id).user]

\* delete(id): DELETE ... WHERE id = id; true when a row was affected
UserRepository_delete(id) ==
  LET target == RowsWithId(table, id)
  IN [table |-> table \ target, deleted |-> target # {}]

(***************************************************************************)
(* Requests and responses                                                  *)
(***************************************************************************)
VARIABLES
  request,     \* the request being answered (op "none": the connection is idle)
  response,    \* the response written for it
  storeCalls,  \* the repository methods called for it, in order
  before,      \* history: the table and deletedIds when the request arrived
  deletedIds,  \* history: ids whose DELETE answered 200, no Create has returned since
  lastCreated, \* history: the latest Create answered 201, until an Update or
               \* Delete request names its id
  storeDown,   \* the database connection is failing: repository calls throw
  storeError,  \* the error a repository call of the request threw
  http,        \* the request's timeout timer and what was written to its socket
  process,     \* the Node process: starting, running or exited
  pending      \* a second request: an Update between its awaits

vars == <<table, sequence, now, request, response, storeCalls, before,
          deletedIds, lastCreated, storeDown, storeError, http, process, pending>>

\* String(undefined): what parseInt sees of a query parameter that is absent
Absent == <<"u", "n", "d", "e", "f", "i", "n", "e", "d">>

NoRequest == [op |-> "none", page |-> <<>>, limit |-> <<>>, id |-> <<>>, body |-> NoUser]

NoPagination == [total |-> 0, page |-> 0, pageSize |-> 0, totalPages |-> 0]

\* response.status(code).json({ status, message, version, timestamp });
\* keys are the body's properties other than data, error the value of its
\* error property, if it has one
Json(code, status, message) ==
  [code |-> code, status |-> status, message |-> message, data |-> "absent",
   user |-> NoUser, results |-> <<>>, errors |-> <<>>, pagination |-> NoPagination,
   keys |-> {"status", "message", "version", "timestamp"}, error |-> ""]

\* res.status(code).json({ error }), with the stack in development
ErrorJson(code, error, development) ==
  [Json(code, "", "") EXCEPT
     !.keys = IF development THEN {"error", "stack"} ELSE {"error"},
     !.error = error]

\* the properties of a response body
Keys(res) == res.keys \cup (IF res.data = "absent" THEN {} ELSE {"data"})

NoResponse == Json(0, "", "")

NoneCreated == [valid |-> FALSE, id |-> 0, body |-> NoUser, createdAt |-> undefined]

InternalServerError == Json(500, "FAILED", "Internal server error")

InvalidUserId == Json(400, "FAILED", "Invalid user ID")

UserNotFound == Json(404, "FAILED", "User not found")

ValidationFailed(errors) ==
  [Json(400, "FAILED", "Validation failed") EXCEPT
     !.data = "errors", !.errors = ValidationErrors(errors)]

NoError == [name |-> "", message |-> "", statusCode |-> 0]

\* the database refuses the connection
ConnectionError ==
  [name |-> "Error", message |-> "connect ECONNREFUSED", statusCode |-> 0]

\* the database rejects the query: a constraint is violated
QueryFailedError ==
  [name |-> "QueryFailedError", message |-> "violates constraint",
   statusCode |-> 0]

\* a header is set on a response whose headers are sent
HeadersSentError ==
  [name |-> "ERR_HTTP_HEADERS_SENT",
   message |-> "Cannot set headers after they are sent to the client",
   statusCode |-> 0]

\* the body parser rejects the request body
BodyParseError ==
  [name |-> "SyntaxError", message |-> "Unexpected token in JSON",
   statusCode |-> 400]

\* a catch block that answers with the error it caught
CatchResponse_leaks(error) == Json(500, "FAILED", error.message)

\* the handlers' catch block: the error is logged, the answer is fixed
CatchResponse(error) == InternalServerError

\* no request: no timer, nothing written
NoHttp ==
  [timer |-> "none", sent |-> <<>>, finished |-> FALSE, headersSentAtDeadline |-> FALSE,
   rejections |-> 0]

\* res.headersSent
HeadersSent(h) == h.sent # <<>>

\* json that writes a second response on the socket
ResJson_writesAgain(h, res) ==
  [http |-> [h EXCEPT !.sent = Append(@, res)], threw |-> FALSE]

\* res.status(code).json(body): writes the response, and throws
\* ERR_HTTP_HEADERS_SENT, writing nothing, when the headers are sent
ResJson(h, res) ==
  IF HeadersSent(h)
    THEN [http |-> h, threw |-> TRUE]
    ELSE [http |-> [h EXCEPT !.sent = <<res>>], threw |-> FALSE]

\* try { ... response.json(res) } catch (error) { response.json(500) } in an
\* async handler: when json throws in the try block the catch block calls it
\* again, and when it throws there the handler's promise is rejected
HandlerWrites(h, res) ==
  LET try   == ResJson(h, res)
      catch == ResJson(try.http, CatchResponse(HeadersSentError))
  IN IF ~try.threw
       THEN [http |-> try.http, rejected |-> FALSE]
       ELSE [http |-> [catch.http EXCEPT
                         !.rejections = IF catch.threw THEN @ + 1 ELSE @],
             rejected |-> catch.threw]

\* process.on("unhandledRejection"): the rejection is logged
OnUnhandledRejection(p) == p

\* the handler's step: the request, the response it passes to json, the
\* error a repository call threw, the repository calls made, and the table,
\* sequence and clock they leave
Respond(req, res, err, calls, t, seq, clock) ==
  LET written == HandlerWrites(http, res)
  IN /\ request' = req
     /\ response' = res
     /\ storeError' = err
     /\ storeCalls' = calls
     /\ table' = t
     /\ sequence' = seq
     /\ now' = clock
     /\ before' = [table |-> table, deletedIds |-> deletedIds]
     /\ http' = written.http
     /\ process' = IF written.rejected THEN OnUnhandledRejection(process)
                   ELSE process
     /\ UNCHANGED <<storeDown, pending>>

\* the handler answers from its try block
Answer(req, res, calls, t, seq, clock) ==
  Respond(req, res, NoError, calls, t, seq, clock)

\* a repository call threw: the handler answers from its catch block
Caught(req, err, calls, t, seq, clock) ==
  Respond(req, CatchResponse(err), err, calls, t, seq, clock)

History(dels, created) ==
  /\ deletedIds' = dels
  /\ lastCreated' = created

\* an Update or Delete request that names the id of lastCreated ends its watch
Unwatch(id) ==
  IF lastCreated.valid /\ ~id.nan /\ id.val = lastCreated.id
    THEN NoneCreated ELSE lastCreated

(***************************************************************************)
(* UserController                                                          *)
(***************************************************************************)
\* GET /users?page=&limit=
UserController_findAll(pageQuery, limitQuery) ==
  LET req   == [NoRequest EXCEPT !.op = "findAll", !.page = pageQuery,
                                 !.limit = limitQuery]
      page  == OrDefault(parseInt(pageQuery), 1)
      limit == OrDefault(parseInt(limitQuery), 10)
  IN /\ History(deletedIds, lastCreated)
     /\ IF page < 1
          THEN Answer(req, Json(400, "FAILED", "Page number must be greater than 0"),
                      <<>>, table, sequence, now)
        ELSE IF limit < 1 \/ limit > 100
          THEN Answer(req, Json(400, "FAILED", "Limit must be between 1 and 100"),
                      <<>>, table, sequence, now)
        ELSE IF storeDown
          THEN Caught(req, ConnectionError, <<"findAll">>, table, sequence, now)
        ELSE \E o \in OrderedByCreatedAtDesc(table) :
               LET result == UserRepository_findAll(page, limit, o)
               IN Answer(req,
                         [Json(200, "SUCCESS", "Users retrieved successfully") EXCEPT
                            !.data = "list", !.results = result.data,
                            !.pagination = [total |-> result.total,
                                            page |-> result.page,
                                            pageSize |-> limit,
                                            totalPages |-> result.totalPages]],
                         <<"findAll">>, table, sequence, now)

\* GET /users/:id
UserController_findOne(idParam) ==
  LET req  == [NoRequest EXCEPT !.op = "findOne", !.id = idParam]
      id   == parseInt(idParam)
      user == UserRepository_findOne(table, id.val)
  IN /\ History(deletedIds, lastCreated)
     /\ IF id.nan
          THEN Answer(req, InvalidUserId, <<>>, table, sequence, now)
        ELSE IF storeDown
          THEN Caught(req, ConnectionError, <<"findOne">>, table, sequence, now)
        ELSE IF user.null
          THEN Answer(req, UserNotFound, <<"findOne">>, table, sequence, now)
        ELSE Answer(req,
                    [Json(200, "SUCCESS", "User retrieved successfully") EXCEPT
                       !.data = "user", !.user = user.user],
                    <<"findOne">>, table, sequence, now)

\* POST /users
UserController_create(body) ==
  LET req      == [NoRequest EXCEPT !.op = "create", !.body = body]
      userData == plainToClass(body)
      errors   == validate(userData)
      saved    == UserRepository_create(userData)
  IN IF Len(errors) > 0
       THEN /\ Answer(req, ValidationFailed(errors), <<>>, table, sequence, now)
            /\ History(deletedIds, lastCreated)
     ELSE IF storeDown
       THEN /\ Caught(req, ConnectionError, <<"create">>, table, sequence, now)
            /\ History(deletedIds, lastCreated)
     ELSE IF saved.threw
       THEN /\ Caught(req, QueryFailedError, <<"create">>, saved.table,
                      saved.sequence, saved.now)
            /\ History(deletedIds, lastCreated)
     ELSE /\ Answer(req,
                    [Json(201, "SUCCESS", "User created successfully") EXCEPT
                       !.data = "user", !.user = saved.user],
                    <<"create">>, saved.table, saved.sequence, saved.now)
          /\ History(deletedIds \ {saved.user.id.num},
                     [valid |-> TRUE, id |-> saved.user.id.num, body |-> body,
                      createdAt |-> saved.user.createdAt])

\* PUT /users/:id
UserController_update(idParam, body) ==
  LET req          == [NoRequest EXCEPT !.op = "update", !.id = idParam, !.body = body]
      id           == parseInt(idParam)
      existingUser == UserRepository_findOne(table, id.val)
      userData     == plainToClass(Spread(existingUser.user, body))
      errors       == validate(userData)
      updated      == UserRepository_update(id.val, body)
  IN /\ History(deletedIds, Unwatch(id))
     /\ IF id.nan
          THEN Answer(req, InvalidUserId, <<>>, table, sequence, now)
        ELSE IF storeDown
          THEN Caught(req, ConnectionError, <<"findOne">>, table, sequence, now)
        ELSE IF existingUser.null
          THEN Answer(req, UserNotFound, <<"findOne">>, table, sequence, now)
        ELSE IF Len(errors) > 0
          THEN Answer(req, ValidationFailed(errors), <<"findOne">>, table,
                      sequence, now)
        ELSE IF updated.threw
          THEN Caught(req, QueryFailedError, <<"findOne">> \o updated.calls,
                      updated.table, sequence, updated.now)
        ELSE Answer(req,
                    [Json(200, "SUCCESS", "User updated successfully") EXCEPT
                       !.data = IF updated.null THEN "null" ELSE "user",
                       !.user = updated.user],
                    <<"findOne">> \o updated.calls, updated.table, sequence,
                    updated.now)

\* DELETE /users/:id
UserController_delete(idParam) ==
  LET req     == [NoRequest EXCEPT !.op = "delete", !.id = idParam]
      id      == parseInt(idParam)
      deleted == UserRepository_delete(id.val)
  IN IF id.nan
       THEN /\ Answer(req, InvalidUserId, <<>>, table, sequence, now)
            /\ History(deletedIds, Unwatch(id))
     ELSE IF storeDown
       THEN /\ Caught(req, ConnectionError, <<"delete">>, table, sequence, now)
            /\ History(deletedIds, Unwatch(id))
     ELSE IF ~deleted.deleted
       THEN /\ Answer(req, UserNotFound, <<"delete">>, deleted.table, sequence, now)
            /\ History(deletedIds, Unwatch(id))
     ELSE /\ Answer(req, Json(200, "SUCCESS", "User deleted successfully"),
                    <<"delete">>, deleted.table, sequence, now)
          /\ History(deletedIds \cup {id.val}, Unwatch(id))

\* the response's "finish" event: the request is over
Finish ==
  /\ request # NoRequest
  /\ request' = NoRequest
  /\ response' = NoResponse
  /\ storeError' = NoError
  /\ storeCalls' = <<>>
  /\ before' = [table |-> {}, deletedIds |-> {}]
  /\ http' = NoHttp
  /\ UNCHANGED <<table, sequence, now, deletedIds, lastCreated, storeDown,
                 process, pending>>

(***************************************************************************)
(* The requests the model sends                                            *)
(***************************************************************************)
\* ?page= : absent, "0", "1", "2", "-1", "abc"
PageQueries == {Absent, <<"0">>, <<"1">>, <<"2">>, <<"-", "1">>, <<"a", "b", "c">>}

\* ?limit= : absent, "0", "1", "2", "100", "101", "-1"
LimitQueries ==
  {Absent, <<"0">>, <<"1">>, <<"2">>, <<"1", "0", "0">>, <<"1", "0", "1">>, <<"-", "1">>}

\* /:id : "1", "2", "3", "abc", "2abc", "1.5"
IdParams ==
  {<<"1">>, <<"2">>, <<"3">>, <<"a", "b", "c">>, <<"2", "a", "b", "c">>, <<"1", ".", "5">>}

\* a date a body carries: an instant before the database clock started
LongAgo == JDate(0)

\* the body of the README's Create example
Alice ==
  [NoUser EXCEPT !.firstName = JStr("Alice"), !.lastName = JStr("Wilson"),
                 !.email = JStr("alice@example.com"), !.age = JNum(28)]

\* POST bodies: every mix of absent, invalid and valid fields, with and
\* without an id
CreateBodies ==
  [id        : {undefined, JNum(1), JNum(2)},
   firstName : {undefined, JStr(""), JStr("Alice"), JNum(7)},
   lastName  : {undefined, JStr(""), JStr("Wilson")},
   email     : {undefined, JStr(""), JStr("alice@example.com")},
   age       : {undefined, JStr("28"), JNum(28)},
   createdAt : {undefined},
   updatedAt : {undefined}]

\* PUT bodies: partial bodies, with and without an id, a createdAt or an
\* updatedAt
UpdateBodies ==
  [id        : {undefined, JNum(1), JNum(2)},
   firstName : {undefined, JStr(""), JStr("Alice"), JNum(7)},
   lastName  : {undefined},
   email     : {undefined},
   age       : {undefined, JStr("28"), JNum(28)},
   createdAt : {undefined, LongAgo},
   updatedAt : {undefined, LongAgo}]

\* a few bodies of each kind, for the workloads that vary something else
FewCreateBodies ==
  {Alice, [Alice EXCEPT !.firstName = JNum(7)], [Alice EXCEPT !.id = JNum(1)],
   [Alice EXCEPT !.email = undefined]}

FewUpdateBodies ==
  {NoUser, [NoUser EXCEPT !.firstName = JNum(7)], [NoUser EXCEPT !.id = JNum(1)],
   [NoUser EXCEPT !.updatedAt = LongAgo], [NoUser EXCEPT !.age = JStr("28")]}

FewIdParams == {<<"1">>, <<"2">>, <<"a", "b", "c">>, <<"2", "a", "b", "c">>}

FewQueries == {Absent, <<"0">>}

\* the process as node starts it: startServer has not run
Booting ==
  [state |-> "starting", initialized |-> FALSE, closeAttempted |-> FALSE,
   exitCode |-> 0, cause |-> "none"]

\* the process once startServer has returned: the data source is initialized
\* and the server listens
Serving == [Booting EXCEPT !.state = "running", !.initialized = TRUE]

\* no Update is between its awaits
NoPending ==
  [pc |-> "idle", id |-> <<>>, body |-> NoUser, response |-> NoResponse,
   applied |-> FALSE]

\* an empty table and no request
Fresh ==
  /\ table = {}
  /\ sequence = 1
  /\ now = 1
  /\ request = NoRequest
  /\ response = NoResponse
  /\ storeCalls = <<>>
  /\ before = [table |-> {}, deletedIds |-> {}]
  /\ deletedIds = {}
  /\ lastCreated = NoneCreated
  /\ storeDown = FALSE
  /\ storeError = NoError
  /\ http = NoHttp
  /\ pending = NoPending

\* the server is up over an empty table
Init == Fresh /\ process = Serving

\* the server answers one request at a time
Idle == request = NoRequest

\* the requests of a workload: the handlers, each with the inputs it is sent,
\* while the database clock is below maxClock
Handlers(pages, limits, ids, creates, updates, maxClock) ==
  \/ Idle /\ \E p \in pages, l \in limits : UserController_findAll(p, l)
  \/ Idle /\ \E i \in ids : UserController_findOne(i)
  \/ Idle /\ sequence <= MaxSeq /\ now < maxClock
          /\ \E b \in creates : UserController_create(b)
  \/ Idle /\ now < maxClock
          /\ \E i \in ids, b \in updates : UserController_update(i, b)
  \/ Idle /\ \E i \in ids : UserController_delete(i)

\* the handlers, each request finished before the next
Requests(pages, limits, ids, creates, updates, maxClock) ==
  \/ Handlers(pages, limits, ids, creates, updates, maxClock)
  \/ Finish

\* long request sequences over a few inputs of every kind
Next ==
  Requests(FewQueries, FewQueries, FewIdParams, FewCreateBodies, FewUpdateBodies,
           MaxClock)

Spec == Init /\ [][Next]_vars

\* every page and limit, over tables a few Creates and Deletes build
NextList ==
  Requests(PageQueries, LimitQueries, FewIdParams, FewCreateBodies,
           FewUpdateBodies, MaxClockWide)

SpecList == Init /\ [][NextList]_vars

\* every Create body
NextCreate ==
  Requests(FewQueries, FewQueries, IdParams, CreateBodies, FewUpdateBodies,
           MaxClockWide)

SpecCreate == Init /\ [][NextCreate]_vars

\* every Update body
NextUpdate ==
  Requests(FewQueries, FewQueries, IdParams, FewCreateBodies, UpdateBodies,
           MaxClockWide)

SpecUpdate == Init /\ [][NextUpdate]_vars

(***************************************************************************)
(* The application: the process from its start to its exit, the timeout    *)
(* middleware around every routed request, the routes outside the          *)
(* controller, and a database that can fail.  A handler's step is the      *)
(* moment its awaited repository call returns and it answers; the timer    *)
(* can fire before or after that step.                                     *)
(***************************************************************************)
Running == process.state = "running"

\* AppDataSource.destroy()
Destroy(p) == [p EXCEPT !.initialized = FALSE, !.closeAttempted = TRUE]

\* process.exit(code)
Exit(p, code, cause) ==
  [p EXCEPT !.state = "exited", !.exitCode = code, !.cause = cause]

\* everything but the process
UnchangedServer ==
  UNCHANGED <<table, sequence, now, request, response, storeCalls, before,
              deletedIds, lastCreated, storeDown, storeError, http, pending>>

\* startServer(): initialize the data source, then build the App and listen;
\* when either throws, destroy the data source if it is initialized, exit(1)
StartServer(initializeOk, listenOk) ==
  /\ process.state = "starting"
  /\ process' =
       IF ~initializeOk
         THEN Exit(process, 1, "startServer")
       ELSE IF ~listenOk
         THEN Exit(Destroy([process EXCEPT !.initialized = TRUE]), 1,
                   "startServer")
       ELSE Serving
  /\ UnchangedServer

\* process.on("uncaughtException"): the error is logged, exit(1)
UncaughtException ==
  /\ Running
  /\ process' = Exit(process, 1, "uncaughtException")
  /\ UnchangedServer

\* process.on("SIGTERM") and process.on("SIGINT"): destroy the data source
\* if it is initialized, exit(0)
Signal(sig) ==
  /\ Running
  /\ process' = Exit(IF process.initialized THEN Destroy(process) ELSE process,
                     0, sig)
  /\ UnchangedServer

\* the connection to the database is lost, or is back
Outage ==
  /\ Idle
  /\ storeDown' = ~storeDown
  /\ UNCHANGED <<table, sequence, now, request, response, storeCalls, before,
                 deletedIds, lastCreated, storeError, http, process, pending>>

\* the connection takes a request: it has none, or its last one is over
CanArrive == (Idle /\ http = NoHttp) \/ (~Idle /\ http.finished)

\* a request reaches the server: nothing of the last one is left
NewRequest(req, res, h) ==
  /\ request' = req
  /\ response' = res
  /\ storeError' = NoError
  /\ storeCalls' = <<>>
  /\ before' = [table |-> {}, deletedIds |-> {}]
  /\ http' = h
  /\ UNCHANGED <<table, sequence, now, deletedIds, lastCreated, storeDown,
                 process, pending>>

\* setTimeout(callback, 30000)
Armed == [NoHttp EXCEPT !.timer = "armed"]

\* the timeout middleware on a request of the controller: the timer is set,
\* next() starts the handler, which awaits its repository call
Arrive ==
  /\ CanArrive
  /\ NewRequest(NoRequest, NoResponse, Armed)

\* the handler of the request that arrived has not answered
Arrived == Idle /\ http.timer # "none"

RequestTimeout == ErrorJson(408, "Request timeout", FALSE)

\* the timer's callback, 30 seconds after the request arrived:
\* if (!res.headersSent) res.status(408).json({ error: "Request timeout" })
Timeout ==
  /\ http.timer = "armed"
  /\ http' = [(IF ~HeadersSent(http) THEN ResJson(http, RequestTimeout).http
               ELSE http)
              EXCEPT !.timer = "fired",
                     !.headersSentAtDeadline = HeadersSent(http)]
  /\ UNCHANGED <<table, sequence, now, request, response, storeCalls, before,
                 deletedIds, lastCreated, storeDown, storeError, process,
                 pending>>

\* a finish handler that leaves the timer running
ClearTimeout_forgotten(timer) == timer

\* clearTimeout(timeout): a timer that has not fired never will
ClearTimeout(timer) == IF timer = "armed" THEN "cleared" ELSE timer

\* res.on("finish"): the response is handed to the socket, the timer is
\* cleared
FinishEvent ==
  /\ HeadersSent(http)
  /\ ~http.finished
  /\ http' = [http EXCEPT !.finished = TRUE, !.timer = ClearTimeout(@)]
  /\ UNCHANGED <<table, sequence, now, request, response, storeCalls, before,
                 deletedIds, lastCreated, storeDown, storeError, process,
                 pending>>

RouteNotFound ==
  Json(404, "FAILED", "Route not found, the requested resource does not exist")

\* a request no route matches: the timeout middleware sets the timer and the
\* 404 handler answers at once
UnknownRoute ==
  /\ CanArrive
  /\ NewRequest([NoRequest EXCEPT !.op = "unknownRoute"], RouteNotFound,
                ResJson(Armed, RouteNotFound).http)

\* the global error handler: the error's status and message when it has a
\* statusCode, 500 "Internal server error" otherwise, and the stack in
\* development
ErrorHandler(error, development) ==
  ErrorJson(IF error.statusCode # 0 THEN error.statusCode ELSE 500,
            IF error.statusCode # 0 THEN error.message
            ELSE "Internal server error",
            development)

\* a request whose JSON body does not parse: express.json passes its error to
\* the global error handler, and the timeout middleware is skipped
MalformedBody(development) ==
  /\ CanArrive
  /\ NewRequest([NoRequest EXCEPT !.op = "malformedBody"],
                ErrorHandler(BodyParseError, development),
                ResJson(NoHttp, ErrorHandler(BodyParseError, development)).http)

NextApp ==
  \/ \E initializeOk, listenOk \in BOOLEAN : StartServer(initializeOk, listenOk)
  \/ UncaughtException
  \/ \E sig \in {"SIGTERM", "SIGINT"} : Signal(sig)
  \/ Running /\ Outage
  \/ Running /\ Arrive
  \/ Running /\ Arrived
             /\ Handlers(FewQueries, FewQueries, FewIdParams, FewCreateBodies,
                         FewUpdateBodies, MaxClockWide)
  \/ Running /\ Timeout
  \/ Running /\ FinishEvent
  \/ Running /\ UnknownRoute
  \/ Running /\ \E development \in BOOLEAN : MalformedBody(development)

\* node starts the process over an empty table
InitApp == Fresh /\ process = Booting

SpecApp == InitApp /\ [][NextApp]_vars

(***************************************************************************)
(* Two requests at once: an Update that yields at each of its awaits,      *)
(* while the handlers of other requests run between them.                  *)
(***************************************************************************)
\* what the second request leaves alone
UnchangedFirst ==
  UNCHANGED <<request, response, storeCalls, before, deletedIds, lastCreated,
              storeDown, storeError, http, process>>

\* PUT /users/:id up to its second await: the id is parsed, findOne is
\* awaited, the merged record is validated, repository.update is called
UserController_update_lookup(idParam, body) ==
  LET id           == parseInt(idParam)
      existingUser == UserRepository_findOne(table, id.val)
      userData     == plainToClass(Spread(existingUser.user, body))
      errors       == validate(userData)
      answered(res) == [NoPending EXCEPT !.pc = "answered", !.id = idParam,
                                         !.body = body, !.response = res]
  IN /\ pending.pc = "idle"
     /\ pending' =
          IF id.nan THEN answered(InvalidUserId)
          ELSE IF existingUser.null THEN answered(UserNotFound)
          ELSE IF Len(errors) > 0 THEN answered(ValidationFailed(errors))
          ELSE [NoPending EXCEPT !.pc = "update", !.id = idParam, !.body = body]
     /\ UNCHANGED <<table, sequence, now>>
     /\ UnchangedFirst

\* PUT /users/:id from its second await: repository.update returns and the
\* handler answers 200 with what it returned, or 500 when it threw
UserController_update_write ==
  LET id      == parseInt(pending.id)
      updated == UserRepository_update(id.val, pending.body)
  IN /\ pending.pc = "update"
     /\ pending' =
          [pending EXCEPT
             !.pc = "answered",
             !.applied = ~updated.threw /\ RowsWithId(table, id.val) # {},
             !.response =
               IF updated.threw THEN CatchResponse(QueryFailedError)
               ELSE [Json(200, "SUCCESS", "User updated successfully") EXCEPT
                       !.data = IF updated.null THEN "null" ELSE "user",
                       !.user = updated.user]]
     /\ table' = updated.table
     /\ now' = updated.now
     /\ UNCHANGED sequence
     /\ UnchangedFirst

\* the second request's response is finished
UserController_update_finish ==
  /\ pending.pc = "answered"
  /\ pending' = NoPending
  /\ UNCHANGED <<table, sequence, now>>
  /\ UnchangedFirst

\* PUT bodies of the second request: none of them names the id
RaceUpdateBodies == {NoUser, [NoUser EXCEPT !.firstName = JStr("Alice")]}

NextRace ==
  \/ Requests(FewQueries, FewQueries, FewIdParams, FewCreateBodies,
              FewUpdateBodies, MaxClockWide)
  \/ now < MaxClockWide
       /\ \E i \in FewIdParams, b \in RaceUpdateBodies :
            UserController_update_lookup(i, b)
  \/ UserController_update_write
  \/ UserController_update_finish

SpecRace == Init /\ [][NextRace]_vars

(***************************************************************************)
(* Properties.  Each is read in the state a handler leaves: `request` and  *)
(* `response` are the request answered and its response, `before` the      *)
(* table as the request found it.                                          *)
(***************************************************************************)
\* the parameter is written as an integer: an optional sign and digits only
IsIntegerLiteral(s) ==
  LET first == IF Len(s) > 0 /\ s[1] \in {"-", "+"} THEN 2 ELSE 1
  IN first <= Len(s) /\ \A i \in first..Len(s) : IsDigit(s[i])

\* the integer an integer literal denotes
IntegerOf(s) == parseInt(s).val

\* the id the request's path names, as the handlers read it
PathId == parseInt(request.id).val

\* the fields of a body that break a field rule: an empty firstName, lastName
\* or email, an age that is present and not a number
ViolatedFields(body) ==
  {f \in {"firstName", "lastName", "email"} : body[f] = JStr("")}
    \cup (IF body.age.type \notin {"undefined", "number"} THEN {"age"} ELSE {})

\* C1: a List request whose page is an integer below 1, or whose limit is an
\* integer outside 1..100, is answered 400 and calls no repository method.
C1_BadPagingRejected ==
  (/\ request.op = "findAll"
   /\ \/ IsIntegerLiteral(request.page) /\ IntegerOf(request.page) < 1
      \/ /\ IsIntegerLiteral(request.limit)
         /\ (IntegerOf(request.limit) < 1 \/ IntegerOf(request.limit) > 100))
  => (response.code = 400 /\ storeCalls = <<>>)

\* C2: a Get, Update or Delete request whose path id is not written as an
\* integer is answered 400 and calls no repository method.
C2_NonIntegerIdRejected ==
  (request.op \in {"findOne", "update", "delete"} /\ ~IsIntegerLiteral(request.id))
  => (response.code = 400 /\ storeCalls = <<>>)

\* C3: for page >= 1 and 1 <= limit <= 100, List answers 200 with at most
\* limit records, total the number of stored records, and totalPages the
\* least number of pages of limit records that hold them all (0 for none).
C3_ListPage ==
  (/\ request.op = "findAll"
   /\ IsIntegerLiteral(request.page) /\ IntegerOf(request.page) >= 1
   /\ IsIntegerLiteral(request.limit)
   /\ IntegerOf(request.limit) >= 1 /\ IntegerOf(request.limit) <= 100)
  => LET limit == IntegerOf(request.limit)
         p     == response.pagination
     IN /\ response.code = 200
        /\ response.data = "list"
        /\ Len(response.results) <= limit
        /\ p.total = Cardinality(table)
        /\ p.totalPages >= 0
        /\ p.totalPages * limit >= p.total
        /\ (p.totalPages > 0 => (p.totalPages - 1) * limit < p.total)

\* a List of a page that the limit cuts short, over a total that limit does
\* not divide
C3_Witness ==
  /\ request.op = "findAll"
  /\ IsIntegerLiteral(request.page) /\ IsIntegerLiteral(request.limit)
  /\ response.code = 200
  /\ response.pagination.total = 1
  /\ response.pagination.pageSize = 2
  /\ response.pagination.totalPages = 1

C5_RequiredFields ==
  (request.op = "create"
     /\ \E f \in NotNullColumns : request.body[f].type = "undefined")
  => (response.code = 400 /\ table = before.table)

\* C6: a Get of the id of the latest Create answered 201, no Update or Delete
\* request having named that id since, is answered 200 with the firstName,
\* lastName, email and age the Create body sent and the id and createdAt the
\* Create returned.
C6_CreateGetRoundTrip ==
  (request.op = "findOne" /\ lastCreated.valid
     /\ IsIntegerLiteral(request.id) /\ PathId = lastCreated.id)
  => /\ response.code = 200
     /\ response.user.firstName = lastCreated.body.firstName
     /\ response.user.lastName = lastCreated.body.lastName
     /\ response.user.email = lastCreated.body.email
     /\ response.user.age = lastCreated.body.age
     /\ response.user.id = JNum(lastCreated.id)
     /\ response.user.createdAt = lastCreated.createdAt

\* C7: an Update answered 200 leaves every other record as it was, leaves
\* every field of its record that the body does not carry as it was, and
\* moves the record's updatedAt forward.
C7_UpdateFrame ==
  (request.op = "update" /\ response.code = 200)
  => \E old \in RowsWithId(before.table, PathId) :
       \E new \in table :
         /\ table \ {new} = before.table \ {old}
         /\ \A c \in Columns \ {"updatedAt"} :
              request.body[c].type = "undefined" => new[c] = old[c]
         /\ new.updatedAt > old.updatedAt

\* C8: an Update whose path id is an integer that names no record is answered
\* 404, and the table is as it was.
C8_UpdateMissing ==
  (request.op = "update" /\ IsIntegerLiteral(request.id)
     /\ RowsWithId(before.table, PathId) = {})
  => (response.code = 404 /\ table = before.table)

\* an Update of an id that names no record, over a table that holds one
C8_Witness ==
  /\ request.op = "update"
  /\ IsIntegerLiteral(request.id)
  /\ before.table # {}
  /\ RowsWithId(before.table, PathId) = {}
  /\ response.code = 404

\* C9: a Delete of an id in the table answers 200 and removes that record
\* and no other; a Delete or Get of an id whose Delete answered 200, no
\* Create having returned that id since, answers 404.
C9_DeleteOnce ==
  /\ (request.op = "delete" /\ IsIntegerLiteral(request.id)
        /\ RowsWithId(before.table, PathId) # {})
     => /\ response.code = 200
        /\ table = before.table \ RowsWithId(before.table, PathId)
        /\ Cardinality(table) = Cardinality(before.table) - 1
  /\ (request.op \in {"delete", "findOne"} /\ IsIntegerLiteral(request.id)
        /\ PathId \in before.deletedIds)
     => response.code = 404

\* C10: every stored record's id is the one the sequence generated at its
\* INSERT, no two records share an id, and a Create leaves every record it
\* found as it was.
C10_IdsGeneratedUniqueImmutable ==
  /\ \A r \in table : r.id = r.genId
  /\ \A r1, r2 \in table : r1.id = r2.id => r1 = r2
  /\ request.op = "create" => before.table \subseteq table

\* C11: every stored record's createdAt is the one set at its INSERT, and its
\* updatedAt is not before its createdAt, whatever the bodies of the Create,
\* Update and Delete requests carried.
C11_DatesKept ==
  \A r \in table : r.createdAt = r.insertedAt /\ r.updatedAt >= r.createdAt

\* a response body carries nothing of the error: not its message, no stack
NoDetail(res, error) ==
  /\ res.message # error.message
  /\ res.error # error.message
  /\ "stack" \notin Keys(res)

\* the response is the handlers' fixed 500
IsGeneric500(res) ==
  res.code = 500 /\ res.message = "Internal server error"

\* C12 as stated: when a repository call of List, Get, Create, Update or
\* Delete throws, the request is answered 500 "Internal server error", and
\* the body carries nothing of the error.
C12_StoreFailure500 ==
  storeError # NoError
  => /\ Len(http.sent) = 1
     /\ IsGeneric500(http.sent[1])
     /\ NoDetail(http.sent[1], storeError)

\* C12 amended: when a repository call of List, Get, Create, Update or
\* Delete throws, the handler answers 500 "Internal server error" unless the
\* timeout middleware has answered 408 before it, in which case nothing more
\* is written; no body written carries anything of the error.
C12_StoreFailure500UnlessTimedOut ==
  storeError # NoError
  => /\ request.op \in {"findAll", "findOne", "create", "update", "delete"}
     /\ IsGeneric500(response)
     /\ NoDetail(response, storeError)
     /\ Len(http.sent) = 1
     /\ NoDetail(http.sent[1], storeError)
     /\ \/ http.sent[1] = response
        \/ /\ http.sent[1].code = 408
           /\ http.timer = "fired"
           /\ ~http.headersSentAtDeadline

\* a List whose repository call threw while the database was down, answered
\* 500 before the timer fired
C12_Witness ==
  /\ request.op = "findAll"
  /\ storeError = ConnectionError
  /\ storeCalls = <<"findAll">>
  /\ http.sent = <<InternalServerError>>
  /\ http.timer = "armed"

\* some response written to the socket is a 408
Sent408 == \E i \in DOMAIN http.sent : http.sent[i].code = 408

\* C13 as stated: a timer fires only on a request whose response is not
\* finished, and then the client is answered 408; once the response is
\* finished the timer is cancelled and no 408 is sent.
C13_Timeout408 ==
  /\ http.timer = "fired" => Sent408
  /\ http.finished => http.timer # "armed"
  /\ http.timer = "cleared" => ~Sent408

\* C13 amended: when the timer fires on a request whose response has not
\* been started, the client is answered 408; when it fires on a response
\* that is started and not yet finished, nothing is sent; once the
\* response is finished the timer is cancelled and no 408 is sent.
C13_Timeout408Unanswered ==
  /\ (http.timer = "fired" /\ ~http.headersSentAtDeadline)
     => http.sent = <<RequestTimeout>>
  /\ (http.timer = "fired" /\ http.headersSentAtDeadline) => ~Sent408
  /\ http.finished => http.timer # "armed"
  /\ http.timer = "cleared" => ~Sent408

\* the timer fired while the handler awaited its repository call: 408 is
\* the answer, and its response is finished
C13_Witness ==
  /\ Idle
  /\ http.timer = "fired"
  /\ http.sent = <<RequestTimeout>>
  /\ http.finished

\* C14: every response written carries a status and a message, and a List
\* success carries total, page, pageSize and totalPages as well.
C14_Envelope ==
  \A i \in DOMAIN http.sent :
    /\ {"status", "message"} \subseteq Keys(http.sent[i])
    /\ (http.sent[i].data = "list")
       => {"total", "page", "pageSize", "totalPages"}
            \subseteq DOMAIN http.sent[i].pagination

\* C15: when the process exits with a code other than 0, its data source is
\* not left initialized: a close was attempted if it was.
C15_CloseBeforeExit ==
  (process.state = "exited" /\ process.exitCode # 0 /\ process.initialized)
  => process.closeAttempted

\* C16: an Update running beside other requests answers 200 only when its
\* UPDATE affected a row, and the data of its 200 is that record, not null.
C16_UpdateAppliesOrFails ==
  (pending.pc = "answered" /\ pending.response.code = 200)
  => (pending.applied /\ pending.response.data = "user")

\* C17: a request is answered at most once and its handler never ends the
\* process: after the timer sent 408 the handler's completion writes
\* nothing, and after the handler answered the timer's callback writes
\* nothing.
C17_OneResponse ==
  /\ Len(http.sent) <= 1
  /\ process.cause # "unhandledRejection"
  /\ (http.timer = "fired" /\ ~http.headersSentAtDeadline)
     => http.sent = <<RequestTimeout>>
  /\ (http.timer = "fired" /\ http.headersSentAtDeadline)
     => http.sent = <<response>>

\* the timer answered 408, then the handler completed: its json threw, the
\* rejection was logged, and the server runs
C17_Witness ==
  /\ ~Idle
  /\ http.sent = <<RequestTimeout>>
  /\ http.rejections > 0
  /\ Running

\* the stored record with the body's defined properties laid over it
Overlay(old, body) ==
  [c \in DOMAIN body |-> IF body[c] = undefined THEN old[c] ELSE body[c]]

\* the record an Update's path names, as the request found it
Existing == RowsWithId(before.table, PathId)

\* C18: a Create, Update or Delete answered 400 or 404 leaves the table as
\* it was; an Update of an existing record whose overlay with the body
\* breaks a field rule is answered 400 and never calls repository.update;
\* List and Get leave the table as it was.
C18_RejectedLeavesStore ==
  /\ (request.op \in {"create", "update", "delete"}
        /\ response.code \in {400, 404})
     => table = before.table
  /\ (request.op = "update" /\ ~parseInt(request.id).nan /\ Existing # {}
        /\ \E old \in Existing :
             ViolatedFields(Overlay(RowUser(old), request.body)) # {})
     => (response.code = 400 /\ storeCalls = <<"findOne">>
           /\ table = before.table)
  /\ request.op \in {"findAll", "findOne"} => table = before.table

\* an Update of an existing record answered 400 for its merged record, over
\* a table it left alone
C18_Witness ==
  /\ request.op = "update"
  /\ Existing # {}
  /\ response.code = 400
  /\ response.data = "errors"
  /\ table = before.table

====
